---- MODULE Spec2Model ----
(***************************************************************************)
(* Model of generate_dashboard.py: one run of main(), which shells out to  *)
(* `gh search issues`, keeps the issues whose title carries "[QA]",        *)
(* aggregates them (counts by state, counts by month, three sorted tables) *)
(* and writes the rendered document to index.html.                         *)
(*                                                                         *)
(* Python strings that the program inspects character by character (title, *)
(* url, createdAt) are sequences of one-character strings.  A JSON field   *)
(* of an issue object is a tagged value [kind, val]: kind "str" (val the   *)
(* characters), "null" (JSON null), "absent" (the key is missing from the  *)
(* object) or "list1" (a one-element JSON array holding the string val).   *)
(***************************************************************************)
EXTENDS Integers, Sequences, FiniteSets, TLC

VARIABLES pc, prior_html, index_html, gh_result, output, all_issues,
          qa_issues, issues_by_month, html, error, stdout_log, opened,
          generate_calls

vars == <<pc, prior_html, index_html, gh_result, output, all_issues,
          qa_issues, issues_by_month, html, error, stdout_log, opened,
          generate_calls>>

-----------------------------------------------------------------------------
(* Bounds of the model *)

\* longest list of hand-picked issues the search returns
MaxIssues == 2
\* most distinct calendar months in a generated month-spread search result
MaxMonths == 14
\* number of distinct wall-clock readings datetime.now() may return
MaxClock == 2

-----------------------------------------------------------------------------
(* Program constants *)

\* '[QA]', line 33
QA_MARKER == <<"[","Q","A","]">>
\* 'netflex/issues', lines 46, 278, 314, 349
NETFLEX_MARKER == <<"n","e","t","f","l","e","x","/","i","s","s","u","e","s">>
\* 'workflow-testing', lines 46, 47, 278, 314, 349
TEST_MARKER == <<"w","o","r","k","f","l","o","w","-","t","e","s","t","i","n","g">>
\* the [-12:] slice of line 56
MonthWindow == 12

-----------------------------------------------------------------------------
(* JSON values and Python primitives *)

Str(s) == [kind |-> "str", val |-> s]
Null == [kind |-> "null", val |-> <<>>]
Absent == [kind |-> "absent", val |-> <<>>]
List1(s) == [kind |-> "list1", val |-> s]

Exceptions == {"KeyError", "TypeError", "ValueError", "JSONDecodeError",
               "UnicodeEncodeError", "OSError", "PermissionError"}

\* str.__contains__: scan s left to right for an occurrence of sub
RECURSIVE FindFrom(_, _, _)
FindFrom(sub, s, i) ==
    IF i + Len(sub) - 1 > Len(s) THEN FALSE
    ELSE IF SubSeq(s, i, i + Len(sub) - 1) = sub THEN TRUE
    ELSE FindFrom(sub, s, i + 1)

\* PyIn with an unusable field read as the empty string, as issue.get(key)
\* or '' would
PyIn_Lenient(sub, jv) ==
    CASE jv.kind \in {"absent", "null"} -> "False"
      [] jv.kind = "list1" -> IF jv.val = sub THEN "True" ELSE "False"
      [] OTHER -> IF FindFrom(sub, jv.val, 1) THEN "True" ELSE "False"

\* The expression  sub in issue[key] : "True", "False", or the exception
\* raised.  A missing key raises KeyError at the subscript; None does not
\* support `in` (TypeError); for a list, `in` is element equality.
PyIn(sub, jv) ==
    CASE jv.kind = "absent" -> "KeyError"
      [] jv.kind = "null"   -> "TypeError"
      [] jv.kind = "list1"  -> IF jv.val = sub THEN "True" ELSE "False"
      [] OTHER              -> IF FindFrom(sub, jv.val, 1) THEN "True" ELSE "False"

Digits == <<"0","1","2","3","4","5","6","7","8","9">>
IsDigit(c) == \E i \in 1..10 : Digits[i] = c
DigitVal(c) == (CHOOSE i \in 1..10 : Digits[i] = c) - 1

\* ord() of the characters a month key is made of
Ord(c) == IF c = "-" THEN 45 ELSE 48 + DigitVal(c)

\* Python's < on str: the first differing character decides, else the length
StrLess(a, b) ==
    LET n == IF Len(a) < Len(b) THEN Len(a) ELSE Len(b)
        diffs == {i \in 1..n : a[i] # b[i]}
    IN  IF diffs = {} THEN Len(a) < Len(b)
        ELSE LET i == CHOOSE j \in diffs : \A k \in diffs : j <= k
             IN  Ord(a[i]) < Ord(b[i])

\* str.replace('Z', '+00:00')
RECURSIVE ReplaceZ(_)
ReplaceZ(s) ==
    IF s = <<>> THEN <<>>
    ELSE (IF Head(s) = "Z" THEN <<"+","0","0",":","0","0">> ELSE <<Head(s)>>)
         \o ReplaceZ(Tail(s))

AllDigits(s, lo, hi) == \A i \in lo..hi : IsDigit(s[i])

RECURSIVE ToInt(_)
ToInt(s) == IF s = <<>> THEN 0
            ELSE 10 * ToInt(SubSeq(s, 1, Len(s) - 1)) + DigitVal(s[Len(s)])

IsLeap(y) == (y % 4 = 0 /\ y % 100 # 0) \/ y % 400 = 0
DaysInMonth(y, m) ==
    IF m = 2 THEN (IF IsLeap(y) THEN 29 ELSE 28)
    ELSE IF m \in {4, 6, 9, 11} THEN 30 ELSE 31

NoDate == [ok |-> FALSE, year |-> 0, month |-> 0, day |-> 0, hour |-> 0,
           minute |-> 0, second |-> 0, aware |-> FALSE, offset |-> 0]

\* datetime.fromisoformat on the forms YYYY-MM-DDTHH:MM:SS and
\* YYYY-MM-DDTHH:MM:SS(+|-)HH:MM; the fields keep the values written in the
\* string and the offset (minutes east of UTC) is kept beside them as tzinfo.
\* ok = FALSE stands for the ValueError.
FromIsoFormat(s) ==
    IF /\ Len(s) \in {19, 25}
       /\ AllDigits(s, 1, 4) /\ s[5] = "-" /\ AllDigits(s, 6, 7) /\ s[8] = "-"
       /\ AllDigits(s, 9, 10) /\ s[11] = "T" /\ AllDigits(s, 12, 13)
       /\ s[14] = ":" /\ AllDigits(s, 15, 16) /\ s[17] = ":"
       /\ AllDigits(s, 18, 19)
       /\ Len(s) = 25 => /\ s[20] \in {"+", "-"} /\ AllDigits(s, 21, 22)
                         /\ s[23] = ":" /\ AllDigits(s, 24, 25)
    THEN LET y  == ToInt(SubSeq(s, 1, 4))
             mo == ToInt(SubSeq(s, 6, 7))
             d  == ToInt(SubSeq(s, 9, 10))
             h  == ToInt(SubSeq(s, 12, 13))
             mi == ToInt(SubSeq(s, 15, 16))
             se == ToInt(SubSeq(s, 18, 19))
             aw == Len(s) = 25
             oh == IF aw THEN ToInt(SubSeq(s, 21, 22)) ELSE 0
             om == IF aw THEN ToInt(SubSeq(s, 24, 25)) ELSE 0
             sg == IF aw /\ s[20] = "-" THEN -1 ELSE 1
         IN  IF /\ y >= 1 /\ mo \in 1..12 /\ d >= 1 /\ d <= DaysInMonth(y, mo)
                /\ h < 24 /\ mi < 60 /\ se < 60 /\ oh < 24 /\ om < 60
             THEN [ok |-> TRUE, year |-> y, month |-> mo, day |-> d,
                   hour |-> h, minute |-> mi, second |-> se, aware |-> aw,
                   offset |-> sg * (60 * oh + om)]
             ELSE NoDate
    ELSE NoDate

\* decimal digits of n > 0, no padding (%Y)
RECURSIVE ToDigits(_)
ToDigits(n) == IF n < 10 THEN <<Digits[n + 1]>>
               ELSE ToDigits(n \div 10) \o <<Digits[(n % 10) + 1]>>

\* two digits, zero padded (%m, %d)
Pad2(n) == <<Digits[(n \div 10) + 1], Digits[(n % 10) + 1]>>

\* date.strftime('%Y-%m'): formats the datetime's own fields
StrftimeYm(d) == ToDigits(d.year) \o <<"-">> \o Pad2(d.month)

\* date.strftime('%Y-%m-%d')
StrftimeYmd(d) == StrftimeYm(d) \o <<"-">> \o Pad2(d.day)

-----------------------------------------------------------------------------
(* fetch_qa_issues, lines 22-36 *)

NoErr == ""
Ok(v) == [err |-> NoErr, val |-> v]
Raise(e) == [err |-> e, val |-> <<>>]

\* [issue for issue in all_issues if '[QA]' in issue['title']], line 33:
\* left to right, the first raising element aborts the comprehension
RECURSIVE FilterFrom(_, _, _)
FilterFrom(all, i, acc) ==
    IF i > Len(all) THEN Ok(acc)
    ELSE LET r == PyIn(QA_MARKER, all[i].title)
         IN  IF r \in Exceptions THEN Raise(r)
             ELSE FilterFrom(all, i + 1,
                             IF r = "True" THEN Append(acc, all[i]) ELSE acc)

\* FilterQA with the marker anchored at the start of the title, as
\* title.startswith('[QA]') would
FilterQA_Anchored(all) ==
    Ok(SelectSeq(all, LAMBDA i : /\ i.title.kind = "str"
                                 /\ Len(i.title.val) >= Len(QA_MARKER)
                                 /\ SubSeq(i.title.val, 1, Len(QA_MARKER)) = QA_MARKER))

FilterQA(all) == FilterFrom(all, 1, <<>>)

-----------------------------------------------------------------------------
(* generate_html, lines 38-490 *)

\* ByState with closed taken as "not open", as i['state'] != 'open' would
ByState_RestIsClosed(qa, s) ==
    IF s = "closed" THEN SelectSeq(qa, LAMBDA i : i.state # "open")
    ELSE SelectSeq(qa, LAMBDA i : i.state = s)

\* [i for i in qa_issues if i['state'] == s], lines 42-43
ByState(qa, s) == SelectSeq(qa, LAMBDA i : i.state = s)

\* the exception, if any, of evaluating the url tests of an issue
UrlError(issue) ==
    LET a == PyIn(NETFLEX_MARKER, issue.url)
    IN  IF a \in Exceptions THEN a ELSE NoErr

\* first exception raised while a comprehension or loop walks seq
FirstUrlError(seq) ==
    LET bad == {k \in 1..Len(seq) : UrlError(seq[k]) # NoErr}
    IN  IF bad = {} THEN NoErr
        ELSE UrlError(seq[CHOOSE k \in bad : \A j \in bad : k <= j])

\* RepoName with Primary as the fallback:
\* 'workflow-testing' if 'workflow-testing' in url else 'netflex'
RepoName_DefaultPrimary(issue) ==
    IF PyIn(TEST_MARKER, issue.url) = "True" THEN "workflow-testing" ELSE "netflex"

\* 'netflex' if 'netflex/issues' in url and 'workflow-testing' not in url
\* else 'workflow-testing', lines 278, 314, 349
RepoName(issue) ==
    IF /\ PyIn(NETFLEX_MARKER, issue.url) = "True"
       /\ PyIn(TEST_MARKER, issue.url) = "False"
    THEN "netflex" ELSE "workflow-testing"

\* the datetime d moved to UTC, as d.astimezone(timezone.utc) would
ToUtc(d) ==
    LET t == 60 * d.hour + d.minute - d.offset
        shift == IF t < 0 THEN -1 ELSE IF t >= 1440 THEN 1 ELSE 0
        dd == d.day + shift
        under == dd < 1
        over == dd > DaysInMonth(d.year, d.month)
        m == IF under THEN (IF d.month = 1 THEN 12 ELSE d.month - 1)
             ELSE IF over THEN (IF d.month = 12 THEN 1 ELSE d.month + 1)
             ELSE d.month
        y == IF under /\ d.month = 1 THEN d.year - 1
             ELSE IF over /\ d.month = 12 THEN d.year + 1 ELSE d.year
    IN  [d EXCEPT !.year = y, !.month = m,
                  !.day = IF under THEN DaysInMonth(y, m)
                          ELSE IF over THEN 1 ELSE dd,
                  !.hour = ((t % 1440) \div 60), !.minute = t % 60,
                  !.offset = 0]

\* MonthKey taken after converting the datetime to UTC
MonthKey_Utc(date) == StrftimeYm(ToUtc(date))

\* month_key = date.strftime('%Y-%m'), line 53
MonthKey(date) == StrftimeYm(date)

\* the month loop, lines 50-54: a defaultdict(int) keyed by strftime('%Y-%m')
RECURSIVE CountMonths(_, _, _)
CountMonths(qa, i, d) ==
    IF i > Len(qa) THEN Ok(d)
    ELSE LET date == FromIsoFormat(ReplaceZ(qa[i].createdAt))
         IN  IF ~date.ok THEN Raise("ValueError")
             ELSE LET month_key == MonthKey(date)
                  IN  CountMonths(qa, i + 1,
                         IF month_key \in DOMAIN d
                         THEN [d EXCEPT ![month_key] = @ + 1]
                         ELSE [k \in DOMAIN d \cup {month_key} |->
                                 IF k = month_key THEN 1 ELSE d[k]])

EmptyDict == [k \in {} |-> 0]

\* sorted(issues_by_month.items()): ascending by key (keys are distinct)
RECURSIVE SortedKeys(_)
SortedKeys(S) ==
    IF S = {} THEN <<>>
    ELSE LET m == CHOOSE k \in S : \A o \in S : ~StrLess(o, k)
         IN  <<m>> \o SortedKeys(S \ {m})

SortedItems(d) ==
    LET ks == SortedKeys(DOMAIN d)
    IN  [i \in 1..Len(ks) |-> <<ks[i], d[ks[i]]>>]

\* LastN taking the head of the list, as seq[:12] would
LastN_Head(seq, n) == IF Len(seq) <= n THEN seq ELSE SubSeq(seq, 1, n)

\* seq[-12:], line 56
LastN(seq, n) ==
    IF Len(seq) <= n THEN seq ELSE SubSeq(seq, Len(seq) - n + 1, Len(seq))

SortedMonths(d) == LastN(SortedItems(d), MonthWindow)

\* InsertDesc that puts x ahead of the elements with an equal number, as
\* reversing an ascending sort would
InsertDesc_Unstable(sorted, x) ==
    LET k == Cardinality({j \in 1..Len(sorted) : sorted[j].number > x.number})
    IN  SubSeq(sorted, 1, k) \o <<x>> \o SubSeq(sorted, k + 1, Len(sorted))

\* sorted(seq, key=lambda x: x['number'], reverse=True), lines 277, 313, 348:
\* a stable sort, reverse=True keeps equal keys in their original order
InsertDesc(sorted, x) ==
    LET k == Cardinality({j \in 1..Len(sorted) : sorted[j].number >= x.number})
    IN  SubSeq(sorted, 1, k) \o <<x>> \o SubSeq(sorted, k + 1, Len(sorted))

RECURSIVE SortFrom(_, _, _)
SortFrom(seq, i, acc) ==
    IF i > Len(seq) THEN acc ELSE SortFrom(seq, i + 1, InsertDesc(acc, seq[i]))

SortedByNumberDesc(seq) == SortFrom(seq, 1, <<>>)

Created(issue) == StrftimeYmd(FromIsoFormat(ReplaceZ(issue.createdAt)))

\* one <tr> of the open table, lines 277-289
OpenRow(issue) ==
    LET repo_name == RepoName(issue)
    IN  [number |-> issue.number, issue |-> issue, repo_name |-> repo_name,
         row_class |-> IF repo_name = "workflow-testing" THEN "test-issue" ELSE "",
         created |-> Created(issue), badge |-> "badge-open"]

\* one <tr> of the closed table, lines 313-324: the tag carries no class
ClosedRow(issue) ==
    [number |-> issue.number, issue |-> issue, repo_name |-> RepoName(issue),
     row_class |-> "", created |-> Created(issue), badge |-> "badge-closed"]

\* AllRow with the flag not gated on the state, as in the open table
AllRow_Ungated(issue) ==
    LET repo_name == RepoName(issue)
    IN  [number |-> issue.number, issue |-> issue, repo_name |-> repo_name,
         row_class |-> IF repo_name = "workflow-testing" THEN "test-issue" ELSE "",
         created |-> Created(issue),
         badge |-> IF issue.state = "open" THEN "badge-open" ELSE "badge-closed"]

\* one <tr class=...> of the all-issues table, lines 348-363
AllRow(issue) ==
    LET repo_name == RepoName(issue)
    IN  [number |-> issue.number, issue |-> issue, repo_name |-> repo_name,
         row_class |-> IF repo_name = "workflow-testing" /\ issue.state = "open"
                       THEN "test-issue" ELSE "",
         created |-> Created(issue),
         badge |-> IF issue.state = "open" THEN "badge-open" ELSE "badge-closed"]

Rows(seq, Row(_)) == [k \in 1..Len(seq) |-> Row(seq[k])]

NoDoc == [rendered |-> FALSE, generated_at |-> 0, total |-> 0, open |-> 0,
          closed |-> 0, open_rows |-> <<>>, closed_rows |-> <<>>,
          all_rows |-> <<>>, month_labels |-> <<>>, month_counts |-> <<>>]

\* The document generate_html returns, or the exception it raises.  The url
\* tests run first on the open issues (lines 46-47), then the month loop
\* parses every createdAt (51-54), then the closed and the all table test the
\* urls of the remaining issues (314, 349).
GenerateHtmlResult(qa, now) ==
    LET open_issues   == ByState(qa, "open")
        closed_issues == ByState(qa, "closed")
        e1 == FirstUrlError(open_issues)
        months == CountMonths(qa, 1, EmptyDict)
        e3 == FirstUrlError(SortedByNumberDesc(closed_issues))
        e4 == FirstUrlError(SortedByNumberDesc(qa))
        err == IF e1 # NoErr THEN e1
               ELSE IF months.err # NoErr THEN months.err
               ELSE IF e3 # NoErr THEN e3 ELSE e4
    IN  IF err # NoErr
        THEN [err |-> err, months |-> EmptyDict, doc |-> NoDoc]
        ELSE LET sorted_months == SortedMonths(months.val)
             IN [err |-> NoErr, months |-> months.val,
                 doc |-> [rendered |-> TRUE, generated_at |-> now,
                          total |-> Len(qa), open |-> Len(open_issues),
                          closed |-> Len(closed_issues),
                          open_rows |-> Rows(SortedByNumberDesc(open_issues), OpenRow),
                          closed_rows |-> Rows(SortedByNumberDesc(closed_issues), ClosedRow),
                          all_rows |-> Rows(SortedByNumberDesc(qa), AllRow),
                          month_labels |-> [k \in 1..Len(sorted_months) |-> sorted_months[k][1]],
                          month_counts |-> [k \in 1..Len(sorted_months) |-> sorted_months[k][2]]]]

-----------------------------------------------------------------------------
(* What `gh search issues` can print: the inputs of a run *)

TitleQaA == <<"[","Q","A","]"," ","a">>
TitleQaOnly == <<"[","Q","A","]">>
TitleQaInner == <<"x","[","Q","A","]">>
TitleLower == <<"[","q","a","]"," ","a">>
TitleNoBrackets == <<"Q","A"," ","a">>
UrlNetflex == <<"o","/","n","e","t","f","l","e","x","/","i","s","s","u","e","s","/","7">>
UrlTest == <<"o","/","w","o","r","k","f","l","o","w","-","t","e","s","t","i","n","g","/","i","s","s","u","e","s","/","2">>
UrlOther == <<"o","/","d","o","c","s","/","i","s","s","u","e","s","/","8">>
UrlBoth == <<"o","/","w","o","r","k","f","l","o","w","-","t","e","s","t","i","n","g","-","n","e","t","f","l","e","x","/","i","s","s","u","e","s","/","1">>
CreatedJanZ == <<"2","0","2","4","-","0","1","-","3","1","T","2","3",":","3","0",":","0","0","Z">>
CreatedJanWest == <<"2","0","2","4","-","0","1","-","3","1","T","2","3",":","3","0",":","0","0","-","0","5",":","0","0">>
CreatedFebEast == <<"2","0","2","4","-","0","2","-","0","1","T","0","0",":","3","0",":","0","0","+","0","2",":","0","0">>
CreatedMarZ == <<"2","0","2","4","-","0","3","-","0","5","T","1","0",":","0","0",":","0","0","Z">>
CreatedBadMonth == <<"2","0","2","4","-","1","3","-","0","1","T","0","0",":","0","0",":","0","0","Z">>
MidMonthNoon == <<"-","1","5","T","1","2",":","0","0",":","0","0","Z">>
\* a title whose JSON text holds the escape \ud800: json.loads returns a
\* lone surrogate, which the utf-8 encoder of the output file rejects
LoneSurrogate == "<U+D800>"
TitleSurrogate == QA_MARKER \o <<LoneSurrogate>>

Issue(n, title, state, createdAt, url) ==
    [number |-> n, title |-> title, state |-> state, createdAt |-> createdAt,
     url |-> url]

IssueUniverse ==
    { Issue(7,   Str(TitleQaA),        "open",   CreatedJanZ,     Str(UrlNetflex)),
      Issue(7,   Str(TitleQaA),        "open",   CreatedMarZ,     Str(UrlTest)),
      Issue(99,  Str(TitleQaOnly),     "closed", CreatedJanWest,  Str(UrlTest)),
      Issue(100, Str(TitleQaInner),    "closed", CreatedFebEast,  Str(UrlNetflex)),
      Issue(8,   Str(TitleQaA),        "open",   CreatedMarZ,     Str(UrlOther)),
      Issue(8,   Str(TitleQaA),        "merged", CreatedJanZ,     Str(UrlNetflex)),
      Issue(11,  Str(TitleQaA),        "closed", CreatedFebEast,  Str(UrlBoth)),
      Issue(3,   Str(TitleLower),      "open",   CreatedJanZ,     Str(UrlNetflex)),
      Issue(4,   Str(TitleNoBrackets), "closed", CreatedMarZ,     Str(UrlTest)),
      Issue(5,   Absent,               "open",   CreatedJanZ,     Str(UrlNetflex)),
      Issue(5,   Null,                 "closed", CreatedJanZ,     Str(UrlNetflex)),
      Issue(6,   List1(QA_MARKER),     "open",   CreatedMarZ,     Str(UrlNetflex)),
      Issue(6,   Str(TitleQaA),        "closed", CreatedJanZ,     Absent),
      Issue(12,  Str(TitleQaA),        "open",   CreatedJanZ,     Null),
      Issue(2,   Str(TitleQaA),        "open",   CreatedBadMonth, Str(UrlNetflex)),
      Issue(10,  Str(TitleSurrogate),  "open",   CreatedMarZ,     Str(UrlNetflex)) }

RECURSIVE SeqsUpTo(_, _)
SeqsUpTo(S, n) ==
    IF n = 0 THEN {<<>>}
    ELSE LET shorter == SeqsUpTo(S, n - 1)
         IN  shorter \cup {Append(q, x) : q \in shorter, x \in S}

\* the k-th month (k >= 0) counted from June 2023, as createdAt text
YearChars(y) == ToDigits(y)
SpreadCreated(k) ==
    YearChars(2023 + ((5 + k) \div 12)) \o <<"-">> \o Pad2(((5 + k) % 12) + 1)
    \o MidMonthNoon

SpreadIssue(n, k) ==
    Issue(n, Str(TitleQaA), IF n % 2 = 0 THEN "open" ELSE "closed",
          SpreadCreated(k), IF n % 3 = 0 THEN Str(UrlTest) ELSE Str(UrlNetflex))

\* A search result with one issue in each of d consecutive months, listed
\* oldest first ("asc"), newest first ("desc") or starting in the middle
\* ("rot"), followed, when dup > 0, by a second issue of the dup-th month
\* that shares its number.
MonthSpread(d, order, dup) ==
    LET month(j) == CASE order = "asc"  -> j - 1
                      [] order = "desc" -> d - j
                      [] OTHER          -> (j + (d \div 2)) % d
        base == [j \in 1..d |-> SpreadIssue(j, month(j))]
    IN  IF dup = 0 THEN base
        ELSE Append(base, [SpreadIssue(dup, month(dup)) EXCEPT !.url = Str(UrlOther)])

MonthSpreads ==
    { MonthSpread(d, order, dup) :
        d \in (MonthWindow - 1)..MaxMonths, order \in {"asc", "desc", "rot"},
        dup \in {0, 1, MonthWindow - 1} }

IssueLists == SeqsUpTo(IssueUniverse, MaxIssues) \cup MonthSpreads

\* stdout of the command: nothing, text that is not JSON, or a JSON array
EmptyOut == [kind |-> "empty", issues |-> <<>>]
InvalidOut == [kind |-> "invalid", issues |-> <<>>]
ArrayOut(l) == [kind |-> "array", issues |-> l]
NoneOut == [kind |-> "None", issues |-> <<>>]

Stdouts == {EmptyOut, InvalidOut} \cup {ArrayOut(l) : l \in IssueLists}

\* a failing command prints its diagnostics on stderr; what it leaves on
\* stdout is discarded by run_gh_command
FailedStdouts == {EmptyOut, InvalidOut}

Clock == 1..MaxClock

-----------------------------------------------------------------------------
(* The output file index.html *)

FileAbsent == [kind |-> "absent", doc |-> NoDoc]
FileOld == [kind |-> "old", doc |-> NoDoc]
FileTruncated == [kind |-> "truncated", doc |-> NoDoc]
\* a proper prefix of the text of doc
FilePartial(doc) == [kind |-> "partial", doc |-> doc]
FileComplete(doc) == [kind |-> "complete", doc |-> doc]

\* f.write(html) encodes html as utf-8: a lone surrogate in an interpolated
\* title raises UnicodeEncodeError
Encodable(doc) ==
    \A k \in 1..Len(doc.all_rows) :
        \A c \in 1..Len(doc.all_rows[k].issue.title.val) :
            doc.all_rows[k].issue.title.val[c] # LoneSurrogate

-----------------------------------------------------------------------------
(* main, lines 492-515, step by step *)

Init ==
    /\ pc = "start"
    /\ prior_html \in {FileAbsent, FileOld}
    /\ index_html = prior_html
    /\ gh_result = [ran |-> FALSE, returncode |-> 0, stdout |-> EmptyOut]
    /\ output = NoneOut
    /\ all_issues = <<>>
    /\ qa_issues = <<>>
    /\ issues_by_month = EmptyDict
    /\ html = NoDoc
    /\ error = NoErr
    /\ stdout_log = <<>>
    /\ opened = FALSE
    /\ generate_calls = 0

\* main prints its banner and calls fetch_qa_issues, which calls
\* run_gh_command (lines 13-20, 24-26, 494-498): the command runs and
\* run_gh_command returns its stdout, or None when the exit status is not 0
RunGhCommand ==
    /\ pc = "start"
    /\ \E rc \in {0, 1} :
         \E out \in (IF rc = 0 THEN Stdouts ELSE FailedStdouts) :
            /\ gh_result' = [ran |-> TRUE, returncode |-> rc, stdout |-> out]
            /\ output' = IF rc # 0 THEN NoneOut ELSE out
            /\ stdout_log' = stdout_log \o <<"banner", "fetching">>
                             \o (IF rc # 0 THEN <<"gh-error">> ELSE <<>>)
    /\ pc' = "fetched"
    /\ UNCHANGED <<prior_html, index_html, all_issues, qa_issues,
                   issues_by_month, html, error, opened, generate_calls>>

\* the rest of fetch_qa_issues, lines 28-36
FetchQaIssues ==
    /\ pc = "fetched"
    /\ IF output.kind \in {"None", "empty"}
       THEN \* if not output: return []
            /\ qa_issues' = <<>>
            /\ pc' = "check"
            /\ UNCHANGED <<all_issues, error, stdout_log>>
       ELSE IF output.kind = "invalid"
       THEN \* json.loads raises; nothing catches it
            /\ error' = "JSONDecodeError"
            /\ pc' = "done"
            /\ UNCHANGED <<all_issues, qa_issues, stdout_log>>
       ELSE LET r == FilterQA(output.issues)
            IN  /\ all_issues' = output.issues
                /\ IF r.err # NoErr
                   THEN /\ error' = r.err
                        /\ pc' = "done"
                        /\ UNCHANGED <<qa_issues, stdout_log>>
                   ELSE /\ qa_issues' = r.val
                        /\ stdout_log' = Append(stdout_log, "found")
                        /\ pc' = "check"
                        /\ UNCHANGED error
    /\ UNCHANGED <<prior_html, index_html, gh_result, output, issues_by_month,
                   html, opened, generate_calls>>

\* MainCheck without the early return on an empty list
MainCheck_NoEarlyReturn ==
    /\ pc = "check"
    /\ stdout_log' = Append(stdout_log, "generating")
    /\ pc' = "generate"
    /\ UNCHANGED <<prior_html, index_html, gh_result, output, all_issues,
                   qa_issues, issues_by_month, html, error, opened,
                   generate_calls>>

\* if not qa_issues: print(...); return   (lines 500-505)
MainCheck ==
    /\ pc = "check"
    /\ IF qa_issues = <<>>
       THEN /\ stdout_log' = Append(stdout_log, "no-issues")
            /\ pc' = "done"
       ELSE /\ stdout_log' = Append(stdout_log, "generating")
            /\ pc' = "generate"
    /\ UNCHANGED <<prior_html, index_html, gh_result, output, all_issues,
                   qa_issues, issues_by_month, html, error, opened,
                   generate_calls>>

\* ListAfterGenerate with the tables sorted in place, as
\* qa_issues.sort(key=..., reverse=True) would
ListAfterGenerate_SortInPlace(qa) == SortedByNumberDesc(qa)

\* The caller's list once generate_html has returned or raised: the function
\* only reads qa_issues; the comprehensions of lines 42-47 and the sorted()
\* calls of lines 277, 313, 348 build new lists
ListAfterGenerate(qa) == qa

\* GenerateHtml run inside the with block, after index.html was opened for
\* writing
GenerateHtml_AfterOpen ==
    /\ pc = "generate"
    /\ index_html' = FileTruncated
    /\ \E now \in Clock :
         LET r == GenerateHtmlResult(qa_issues, now)
         IN  /\ generate_calls' = generate_calls + 1
             /\ IF r.err # NoErr
                THEN /\ error' = r.err
                     /\ pc' = "done"
                     /\ UNCHANGED <<html, issues_by_month>>
                ELSE /\ html' = r.doc
                     /\ issues_by_month' = r.months
                     /\ pc' = "open"
                     /\ UNCHANGED error
    /\ UNCHANGED <<prior_html, gh_result, output, all_issues,
                   qa_issues, stdout_log, opened>>

\* html = generate_html(qa_issues), line 506
GenerateHtml ==
    /\ pc = "generate"
    /\ \E now \in Clock :
         LET r == GenerateHtmlResult(qa_issues, now)
         IN  /\ generate_calls' = generate_calls + 1
             /\ IF r.err # NoErr
                THEN /\ error' = r.err
                     /\ pc' = "done"
                     /\ UNCHANGED <<html, issues_by_month>>
                ELSE /\ html' = r.doc
                     /\ issues_by_month' = r.months
                     /\ pc' = "open"
                     /\ UNCHANGED error
    /\ qa_issues' = ListAfterGenerate(qa_issues)
    /\ UNCHANGED <<prior_html, index_html, gh_result, output, all_issues,
                   stdout_log, opened>>

\* open('index.html', 'w', encoding='utf-8'), line 509: mode 'w' truncates
\* the file as it opens it; the open itself can be refused
OpenFile ==
    /\ pc = "open"
    /\ \E ok \in BOOLEAN :
         IF ok
         THEN /\ index_html' = FileTruncated
              /\ opened' = TRUE
              /\ pc' = "write"
              /\ UNCHANGED error
         ELSE /\ error' = "PermissionError"
              /\ pc' = "done"
              /\ UNCHANGED <<index_html, opened>>
    /\ UNCHANGED <<prior_html, gh_result, output, all_issues, qa_issues,
                   issues_by_month, html, stdout_log, generate_calls>>

\* f.write(html) and the close at the end of the with block, lines 509-510
WriteFile ==
    /\ pc = "write"
    /\ IF ~Encodable(html)
       THEN /\ error' = "UnicodeEncodeError"
            /\ pc' = "done"
            /\ UNCHANGED index_html
       ELSE \E ok \in BOOLEAN :
              IF ok
              THEN /\ index_html' = FileComplete(html)
                   /\ pc' = "report"
                   /\ UNCHANGED error
              ELSE \* the device fails part way through the text
                   /\ index_html' = FilePartial(html)
                   /\ error' = "OSError"
                   /\ pc' = "done"
    /\ UNCHANGED <<prior_html, gh_result, output, all_issues, qa_issues,
                   issues_by_month, html, stdout_log, opened, generate_calls>>

\* the closing prints, lines 512-515
Report ==
    /\ pc = "report"
    /\ stdout_log' = Append(stdout_log, "success")
    /\ pc' = "done"
    /\ UNCHANGED <<prior_html, index_html, gh_result, output, all_issues,
                   qa_issues, issues_by_month, html, error, opened,
                   generate_calls>>

\* A second call generate_html(qa_issues) on the list the first call was
\* given, at a later reading of the clock, before anything else happens to
\* the list (the function called twice in a row, lines 38-490)
GenerateHtmlAgain ==
    /\ pc = "open"
    /\ generate_calls = 1
    /\ \E now \in Clock :
         LET r == GenerateHtmlResult(qa_issues, now)
         IN  /\ generate_calls' = generate_calls + 1
             /\ IF r.err # NoErr
                THEN /\ error' = r.err
                     /\ pc' = "done"
                     /\ UNCHANGED <<html, issues_by_month>>
                ELSE /\ html' = r.doc
                     /\ issues_by_month' = r.months
                     /\ pc' = "open"
                     /\ UNCHANGED error
    /\ qa_issues' = ListAfterGenerate(qa_issues)
    /\ UNCHANGED <<prior_html, index_html, gh_result, output, all_issues,
                   stdout_log, opened>>

Next == \/ RunGhCommand
        \/ FetchQaIssues
        \/ MainCheck
        \/ GenerateHtml
        \/ OpenFile
        \/ WriteFile
        \/ Report

Spec == Init /\ [][Next]_vars

\* main with generate_html called a second time on the same list
NextTwice == \/ Next
             \/ GenerateHtmlAgain

SpecTwice == Init /\ [][NextTwice]_vars

-----------------------------------------------------------------------------
(* Vocabulary of the properties *)

\* sub occurs in s at some position
Occurs(sub, s) ==
    \E p \in 1..Len(s) :
        /\ p + Len(sub) - 1 <= Len(s)
        /\ \A q \in 1..Len(sub) : s[p + q - 1] = sub[q]

\* fetch_qa_issues parsed the array and the comprehension ran to its end
Found == \E k \in 1..Len(stdout_log) : stdout_log[k] = "found"

Rendered == html.rendered

\* the year-month written at the head of a createdAt text
WrittenYm(createdAt) == SubSeq(createdAt, 1, 7)

\* the year-month, in UTC, of the instant a createdAt text denotes
UtcYm(createdAt) ==
    LET d == FromIsoFormat(ReplaceZ(createdAt))
        t == 60 * d.hour + d.minute - d.offset
        back == t < 0
        fwd  == t >= 1440
        first == d.day = 1
        last  == d.day = DaysInMonth(d.year, d.month)
        m == IF back /\ first THEN (IF d.month = 1 THEN 12 ELSE d.month - 1)
             ELSE IF fwd /\ last THEN (IF d.month = 12 THEN 1 ELSE d.month + 1)
             ELSE d.month
        y == IF back /\ first /\ d.month = 1 THEN d.year - 1
             ELSE IF fwd /\ last /\ d.month = 12 THEN d.year + 1
             ELSE d.year
    IN  ToDigits(y) \o <<"-">> \o Pad2(m)

\* months since year 0 of a "YYYY-MM" key
MonthOrdinal(key) == 12 * ToInt(SubSeq(key, 1, 4)) + ToInt(SubSeq(key, 6, 7))

Min(a, b) == IF a < b THEN a ELSE b

\* indices of qa_issues whose state is in S
WithState(S) == {i \in 1..Len(qa_issues) : qa_issues[i].state \in S}
OtherStates == {i \in 1..Len(qa_issues) : qa_issues[i].state \notin {"open", "closed"}}

\* where a stable descending sort by number puts element i of the source
\* indices Src of qa_issues
SortedPos(Src, i) ==
    1 + Cardinality({j \in Src : qa_issues[j].number > qa_issues[i].number})
      + Cardinality({j \in Src : /\ qa_issues[j].number = qa_issues[i].number
                                 /\ j < i})

StableDesc(rows, Src) ==
    /\ Len(rows) = Cardinality(Src)
    /\ \A i \in Src : rows[SortedPos(Src, i)].issue = qa_issues[i]
    /\ \A a, b \in 1..Len(rows) : a < b => rows[a].number >= rows[b].number

AllTableRows ==
    {html.open_rows[k] : k \in 1..Len(html.open_rows)}
    \cup {html.closed_rows[k] : k \in 1..Len(html.closed_rows)}
    \cup {html.all_rows[k] : k \in 1..Len(html.all_rows)}

-----------------------------------------------------------------------------
(* C1 *)

\* C1: when every raw issue has a text title, the list fetch_qa_issues
\* returns is exactly the subsequence of the raw issues whose title contains
\* "[QA]" (case-sensitive, anywhere in the title): every kept issue has the
\* marker, the k-th kept issue is the k-th marked raw issue, so none is
\* dropped and the order is the input's, and the result is no longer than
\* the input.
C1_FilterIsMarkedSubsequence ==
    (Found /\ \A i \in 1..Len(all_issues) : all_issues[i].title.kind = "str")
    => LET Marked == {i \in 1..Len(all_issues) :
                         Occurs(QA_MARKER, all_issues[i].title.val)}
       IN  /\ Len(qa_issues) <= Len(all_issues)
           /\ Len(qa_issues) = Cardinality(Marked)
           /\ \A k \in 1..Len(qa_issues) :
                 /\ Occurs(QA_MARKER, qa_issues[k].title.val)
                 /\ \E i \in Marked :
                      /\ Cardinality({j \in Marked : j <= i}) = k
                      /\ qa_issues[k] = all_issues[i]

\* a search result of text titles from which an unmarked issue was dropped
\* ahead of a marked one that was kept
C1_Witness ==
    /\ Found
    /\ \A i \in 1..Len(all_issues) : all_issues[i].title.kind = "str"
    /\ Len(all_issues) >= 2
    /\ ~Occurs(QA_MARKER, all_issues[1].title.val)
    /\ Len(qa_issues) >= 1
    /\ qa_issues[Len(qa_issues)] = all_issues[Len(all_issues)]

-----------------------------------------------------------------------------
(* C2 *)

\* C2 as claimed: in every table a row's category is Secondary
\* ('workflow-testing') if its url contains 'workflow-testing' and Primary
\* ('netflex') otherwise, so a url with neither marker is Primary.
C2_Claimed_DefaultPrimary ==
    Rendered =>
      \A r \in AllTableRows :
          r.repo_name = IF Occurs(TEST_MARKER, r.issue.url.val)
                        THEN "workflow-testing" ELSE "netflex"

\* C2 amended: in every table a row's category is Primary ('netflex')
\* exactly when its url contains 'netflex/issues' and does not contain
\* 'workflow-testing', and Secondary ('workflow-testing') otherwise; an
\* issue whose url contains neither marker is Secondary.
C2_CategoryByUrl ==
    Rendered =>
      \A r \in AllTableRows :
          /\ r.repo_name \in {"netflex", "workflow-testing"}
          /\ r.repo_name = "netflex" <=>
                /\ Occurs(NETFLEX_MARKER, r.issue.url.val)
                /\ ~Occurs(TEST_MARKER, r.issue.url.val)

\* a rendered row whose url has neither marker
C2_Witness ==
    /\ Rendered
    /\ \E r \in AllTableRows :
          /\ ~Occurs(NETFLEX_MARKER, r.issue.url.val)
          /\ ~Occurs(TEST_MARKER, r.issue.url.val)
          /\ r.repo_name = "workflow-testing"

-----------------------------------------------------------------------------
(* C3 *)

\* C3 as claimed: openCount + closedCount = totalCount, both >= 0, with
\* totalCount the size of the classified set, also when an issue's state is
\* neither 'open' nor 'closed'.
C3_Claimed_CountsSumToTotal ==
    Rendered =>
      /\ html.total = Len(qa_issues)
      /\ html.open >= 0 /\ html.closed >= 0
      /\ html.open + html.closed = html.total

\* C3 amended: totalCount is the size of the classified set, openCount the
\* number of its issues with state 'open', closedCount the number with state
\* 'closed', both >= 0; an issue with any other state is counted in neither,
\* so openCount + closedCount = totalCount - (issues with another state).
C3_CountsByState ==
    Rendered =>
      /\ html.total = Len(qa_issues)
      /\ html.open = Cardinality(WithState({"open"}))
      /\ html.closed = Cardinality(WithState({"closed"}))
      /\ html.open >= 0 /\ html.closed >= 0
      /\ html.open + html.closed = html.total - Cardinality(OtherStates)

\* a rendered set holding an issue that is neither open nor closed
C3_Witness ==
    /\ Rendered
    /\ OtherStates # {}
    /\ html.open + html.closed < html.total

-----------------------------------------------------------------------------
(* C4 *)

\* C4: the month series has at most 12 buckets, its "YYYY-MM" keys strictly
\* ascending (so distinct); the keys are the 12 greatest month keys of the
\* issues' createdAt values, or all of them when there are fewer; each
\* bucket's count is the number of classified issues created in that month
\* and is never 0.
C4_MonthSeries ==
    Rendered =>
      LET labels == html.month_labels
          counts == html.month_counts
          K == {WrittenYm(qa_issues[i].createdAt) : i \in 1..Len(qa_issues)}
          L == {labels[k] : k \in 1..Len(labels)}
      IN  /\ Len(labels) <= 12
          /\ Len(counts) = Len(labels)
          /\ \A a, b \in 1..Len(labels) :
                a < b => MonthOrdinal(labels[a]) < MonthOrdinal(labels[b])
          /\ Len(labels) = Min(12, Cardinality(K))
          /\ L \subseteq K
          /\ \A x \in K \ L : \A y \in L : MonthOrdinal(x) < MonthOrdinal(y)
          /\ \A k \in 1..Len(labels) :
                /\ counts[k] = Cardinality({i \in 1..Len(qa_issues) :
                                  WrittenYm(qa_issues[i].createdAt) = labels[k]})
                /\ counts[k] > 0

\* more than 12 distinct months, listed out of order, one kept month holding
\* two issues
C4_Witness ==
    /\ Rendered
    /\ Cardinality({WrittenYm(qa_issues[i].createdAt) : i \in 1..Len(qa_issues)}) > 12
    /\ Len(html.month_labels) = 12
    /\ \E k \in 1..12 : html.month_counts[k] = 2
    /\ \E i \in 1..(Len(qa_issues) - 1) :
          MonthOrdinal(WrittenYm(qa_issues[i].createdAt))
            > MonthOrdinal(WrittenYm(qa_issues[i + 1].createdAt))

-----------------------------------------------------------------------------
(* C5 *)

\* C5: openRows, closedRows and allRows are the stable descending sorts by
\* issue number of the open issues, the closed issues and the whole
\* classified set: each source issue sits exactly once at the position a
\* stable descending sort gives it, larger numbers come first, and equal
\* numbers keep their input order.
C5_RowsStableDescending ==
    Rendered =>
      /\ StableDesc(html.open_rows, WithState({"open"}))
      /\ StableDesc(html.closed_rows, WithState({"closed"}))
      /\ StableDesc(html.all_rows, 1..Len(qa_issues))

\* an input that is not already sorted and holds two different issues with
\* the same number
C5_Witness ==
    /\ Rendered
    /\ \E i, j \in 1..Len(qa_issues) :
          i < j /\ qa_issues[i].number < qa_issues[j].number
    /\ \E i, j \in 1..Len(qa_issues) :
          /\ i < j /\ qa_issues[i].number = qa_issues[j].number
          /\ qa_issues[i] # qa_issues[j]
          /\ qa_issues[i].state = qa_issues[j].state

-----------------------------------------------------------------------------
(* C6 *)

\* the command exited with a nonzero status
FetchFailed == gh_result.ran /\ gh_result.returncode # 0

\* the command succeeded and fetch_qa_issues returned an empty list
FetchedNothing ==
    /\ gh_result.ran /\ gh_result.returncode = 0
    /\ pc \in {"check", "done"} /\ error = NoErr /\ qa_issues = <<>>

\* C6: in a run whose fetch command exits nonzero, or succeeds with zero
\* QA-marked issues, index.html is never opened or written and so keeps its
\* prior state, generate_html is never called, and the run ends right after
\* printing the "no issues" diagnostic.
C6_NoOutputWithoutIssues ==
    (FetchFailed \/ FetchedNothing)
    => /\ index_html = prior_html
       /\ ~opened
       /\ generate_calls = 0
       /\ pc \notin {"generate", "open", "write", "report"}
       /\ pc = "done" => /\ error = NoErr
                         /\ stdout_log[Len(stdout_log)] = "no-issues"

\* a finished run over an existing index.html whose search returned issues,
\* none of them QA-marked
C6_Witness ==
    /\ pc = "done"
    /\ FetchedNothing
    /\ Len(all_issues) >= 1
    /\ prior_html = FileOld /\ index_html = FileOld
    /\ stdout_log[Len(stdout_log)] = "no-issues"

-----------------------------------------------------------------------------
(* C7 *)

\* C7 as claimed: at the end of every run, whichever stage failed (fetch,
\* parsing and filtering, generate_html, the write itself), index.html is
\* either untouched or holds the complete rendered document.
C7_Claimed_AllOrNothing ==
    pc = "done" => \/ index_html = prior_html
                   \/ index_html = FileComplete(html)

\* C7 amended: a failure in the fetch, in JSON parsing and filtering, in
\* generate_html or in opening the file ends the run with index.html
\* untouched, and a run that ends without an error leaves the complete
\* rendered document; a failure of f.write, after open(..., 'w') has
\* truncated the file, leaves index.html empty or partially written.
C7_UntouchedUntilOpened ==
    /\ ~opened => index_html = prior_html
    /\ pc = "done" =>
         /\ (opened /\ error = NoErr) => index_html = FileComplete(html)
         /\ (opened /\ error # NoErr) =>
               /\ error \in {"UnicodeEncodeError", "OSError"}
               /\ index_html \in {FileTruncated, FilePartial(html)}
         /\ (error # NoErr /\ error \notin {"UnicodeEncodeError", "OSError"})
               => index_html = prior_html

\* generate_html raised on an unparseable createdAt and the run ended with
\* the existing index.html as it was
C7_Witness ==
    /\ pc = "done"
    /\ error = "ValueError"
    /\ generate_calls = 1
    /\ prior_html = FileOld /\ index_html = FileOld

-----------------------------------------------------------------------------
(* C8 *)

Flagged(r) == r.row_class = "test-issue"

\* C8 as claimed: a row is flagged test-issue exactly when its category is
\* Secondary in the open table and in the closed table, and exactly when its
\* category is Secondary and its state is 'open' in the all-issues table.
C8_Claimed_FlagInBothStateTables ==
    Rendered =>
      /\ \A k \in 1..Len(html.open_rows) :
            Flagged(html.open_rows[k])
              <=> html.open_rows[k].repo_name = "workflow-testing"
      /\ \A k \in 1..Len(html.closed_rows) :
            Flagged(html.closed_rows[k])
              <=> html.closed_rows[k].repo_name = "workflow-testing"
      /\ \A k \in 1..Len(html.all_rows) :
            Flagged(html.all_rows[k])
              <=> /\ html.all_rows[k].repo_name = "workflow-testing"
                  /\ html.all_rows[k].issue.state = "open"

\* C8 amended: a row is flagged test-issue exactly when its category is
\* Secondary in the open table, exactly when its category is Secondary and
\* its state is 'open' in the all-issues table, and never in the closed
\* table, whose rows carry no class; a closed Secondary issue is unflagged
\* in every view.
C8_FlagOnlyOpenSecondary ==
    Rendered =>
      /\ \A k \in 1..Len(html.open_rows) :
            Flagged(html.open_rows[k])
              <=> html.open_rows[k].repo_name = "workflow-testing"
      /\ \A k \in 1..Len(html.closed_rows) : ~Flagged(html.closed_rows[k])
      /\ \A k \in 1..Len(html.all_rows) :
            Flagged(html.all_rows[k])
              <=> /\ html.all_rows[k].repo_name = "workflow-testing"
                  /\ html.all_rows[k].issue.state = "open"

\* a document with a flagged open Secondary row and a closed Secondary row
\* that is unflagged in the closed table and in the all-issues table
C8_Witness ==
    /\ Rendered
    /\ \E k \in 1..Len(html.open_rows) : Flagged(html.open_rows[k])
    /\ \E k \in 1..Len(html.closed_rows) :
          /\ html.closed_rows[k].repo_name = "workflow-testing"
          /\ ~Flagged(html.closed_rows[k])
    /\ \E k \in 1..Len(html.all_rows) :
          /\ html.all_rows[k].repo_name = "workflow-testing"
          /\ html.all_rows[k].issue.state = "closed"
          /\ ~Flagged(html.all_rows[k])

-----------------------------------------------------------------------------
(* C9 *)

\* the number of classified issues whose createdAt maps to key under Ym
CountOf(Ym(_), key) ==
    Cardinality({i \in 1..Len(qa_issues) : Ym(qa_issues[i].createdAt) = key})

\* C9 as claimed: whatever offset a createdAt carries, the issue is counted
\* in the bucket of the UTC year-month of its instant.
C9_Claimed_BucketsByUtcMonth ==
    Rendered =>
      /\ DOMAIN issues_by_month
           = {UtcYm(qa_issues[i].createdAt) : i \in 1..Len(qa_issues)}
      /\ \A key \in DOMAIN issues_by_month :
            issues_by_month[key] = CountOf(UtcYm, key)

\* C9 amended: whatever offset a createdAt carries, the issue is counted in
\* the bucket of the year-month written in the string, that is of its local
\* wall-clock fields; this is the UTC year-month only when the offset does
\* not move the instant across a month boundary (as with 'Z').
C9_BucketsByWrittenMonth ==
    Rendered =>
      /\ DOMAIN issues_by_month
           = {WrittenYm(qa_issues[i].createdAt) : i \in 1..Len(qa_issues)}
      /\ \A key \in DOMAIN issues_by_month :
            issues_by_month[key] = CountOf(WrittenYm, key)

\* a rendered set with an issue whose written month is not its UTC month
C9_Witness ==
    /\ Rendered
    /\ \E i \in 1..Len(qa_issues) :
          /\ WrittenYm(qa_issues[i].createdAt) # UtcYm(qa_issues[i].createdAt)
          /\ WrittenYm(qa_issues[i].createdAt) \in DOMAIN issues_by_month

-----------------------------------------------------------------------------
(* C10 *)

Unusable(jv) == jv.kind \in {"absent", "null"}

\* C10 as claimed: classification never raises; a record whose title or url
\* is missing or not a string is handled as if the field were empty.
C10_Claimed_NeverRaises ==
    error \notin {"KeyError", "TypeError"}

\* C10 amended: classification raises on a missing or null field instead of
\* treating it as empty. A raw record whose title key is absent (KeyError)
\* or null (TypeError) aborts fetch_qa_issues for the whole list, and a
\* retained record whose url is absent or null aborts generate_html; in both
\* cases the run ends with an exception and index.html is not opened. No
\* record is dropped or defaulted to a category because a field is unusable;
\* a title that is the list ["[QA]"] passes the `in` test and is retained.
C10_UnusableFieldRaises ==
    (pc \notin {"start", "fetched"} /\ output.kind = "array") =>
      LET raw == output.issues
          badTitle == \E i \in 1..Len(raw) : Unusable(raw[i].title)
          badUrl == \E k \in 1..Len(qa_issues) : Unusable(qa_issues[k].url)
      IN  /\ badTitle => /\ pc = "done"
                         /\ error \in {"KeyError", "TypeError"}
                         /\ qa_issues = <<>> /\ generate_calls = 0
                         /\ ~opened /\ index_html = prior_html
          /\ (~badTitle /\ badUrl /\ pc = "done") =>
                /\ error \in {"KeyError", "TypeError", "ValueError"}
                /\ generate_calls = 1 /\ ~Rendered
                /\ ~opened /\ index_html = prior_html
          /\ (~badTitle /\ badUrl) => pc \in {"check", "generate", "done"}
          /\ ~badTitle =>
                \A i \in 1..Len(raw) :
                   (raw[i].title.kind = "list1" /\ raw[i].title.val = QA_MARKER)
                     => \E k \in 1..Len(qa_issues) : qa_issues[k] = raw[i]
          /\ error \in {"KeyError", "TypeError"} => (badTitle \/ badUrl)

\* generate_html raised KeyError on a retained record without a url
C10_Witness ==
    /\ pc = "done"
    /\ error = "KeyError"
    /\ generate_calls = 1
    /\ \E k \in 1..Len(qa_issues) : qa_issues[k].url.kind = "absent"

-----------------------------------------------------------------------------
(* C11 *)

\* the report parts of two documents other than the generated-at timestamp
SameReport(a, b) ==
    /\ a.rendered = b.rendered
    /\ a.total = b.total /\ a.open = b.open /\ a.closed = b.closed
    /\ a.open_rows = b.open_rows
    /\ a.closed_rows = b.closed_rows
    /\ a.all_rows = b.all_rows
    /\ a.month_labels = b.month_labels
    /\ a.month_counts = b.month_counts

\* a call of generate_html returns (or raises)
GenerateStep == generate_calls' = generate_calls + 1

====
